---------------------------- MODULE Spec2Model ----------------------------
(***************************************************************************)
(* sunrise.py: times at which the sun crosses an elevation threshold.      *)
(*                                                                         *)
(* Number representation.  The program computes in IEEE doubles; the model *)
(* computes in fixed point.                                                *)
(*   - an angle in radians is an integer count of units, TAU units to the  *)
(*     turn; TAU = 8640000, so one unit is 1/100 s of clock time and       *)
(*     1/24000 degree;                                                     *)
(*   - an angle in degrees is an integer count of 1/DEG degree;            *)
(*   - a sine, cosine or cos(hour) is an integer count of 1/SCALE;         *)
(*   - the real `seconds` of a clock triple is a count of 1/100 s.         *)
(* Arithmetic on these is exact, with one exception that is modelled: the  *)
(* rounded addition inside Python's float `%` (see PyFloatMod1).           *)
(***************************************************************************)
EXTENDS Integers, Sequences, FiniteSets, TLC

\* src/sunrise.py:6   TAU = math.pi * 2, in units
TAU == 8640000
\* units per radian, TAU / (2 * pi)
RAD == 1375099
\* 1/DEG degree is the resolution of an angle given in degrees
DEG == 10^4
\* 1/SCALE is the resolution of a sine or cosine
SCALE == 10^4
\* src/sunrise.py:7   DAYS_PER_YEAR = 365.25, as the fraction 1461 / 4
DAYS_PER_YEAR_X4 == 1461

--------------------------------------------------------------------------
(* Integer helpers. *)

Abs(x) == IF x < 0 THEN -x ELSE x

Sgn(x) == IF x < 0 THEN -1 ELSE IF x > 0 THEN 1 ELSE 0

\* floor(a * k / b) for b > 0, without forming a * k
MulDiv(a, k, b) == (a \div b) * k + ((a % b) * k) \div b

\* x * y / SCALE truncated toward zero: the product of two fixed-point values
Mul(x, y) == Sgn(x) * Sgn(y) * ((Abs(x) * Abs(y)) \div SCALE)

\* math.sin at whole degrees 0..90, times SCALE
SinTab ==
  << 0, 175, 349, 523, 698, 872, 1045, 1219, 1392, 1564, 1736, 1908, 2079,
     2250, 2419, 2588, 2756, 2924, 3090, 3256, 3420, 3584, 3746, 3907, 4067,
     4226, 4384, 4540, 4695, 4848, 5000, 5150, 5299, 5446, 5592, 5736, 5878,
     6018, 6157, 6293, 6428, 6561, 6691, 6820, 6947, 7071, 7193, 7314, 7431,
     7547, 7660, 7771, 7880, 7986, 8090, 8192, 8290, 8387, 8480, 8572, 8660,
     8746, 8829, 8910, 8988, 9063, 9135, 9205, 9272, 9336, 9397, 9455, 9511,
     9563, 9613, 9659, 9703, 9744, 9781, 9816, 9848, 9877, 9903, 9925, 9945,
     9962, 9976, 9986, 9994, 9998, 10000 >>

\* units in one degree
UnitsPerDegree == TAU \div 360

\* sine of an angle in the first quadrant, 0 <= x <= TAU/4, by linear
\* interpolation between whole degrees
SinQ1(x) ==
  LET i == x \div UnitsPerDegree
      r == x % UnitsPerDegree
  IN  IF i >= 90 THEN SinTab[91]
      ELSE SinTab[i + 1] + ((SinTab[i + 2] - SinTab[i + 1]) * r) \div UnitsPerDegree

\* math.sin
Sin(x) ==
  LET y == x % TAU
  IN  IF y <= TAU \div 4 THEN SinQ1(y)
      ELSE IF y <= TAU \div 2 THEN SinQ1(TAU \div 2 - y)
      ELSE IF y <= 3 * (TAU \div 4) THEN -SinQ1(y - TAU \div 2)
      ELSE -SinQ1(TAU - y)

\* math.cos
Cos(x) == Sin(x + TAU \div 4)

\* cosine at i whole degrees, 0 <= i <= 180
CosDeg(i) == IF i <= 90 THEN SinTab[91 - i] ELSE -SinTab[i - 89]

\* math.acos on [-SCALE, SCALE]: the principal value, in 0 .. TAU/2
Acos(q) ==
  \* the last whole degree whose cosine is not below q
  LET i == Cardinality({k \in 1..179 : CosDeg(k) >= q})
  IN  i * UnitsPerDegree
        + ((CosDeg(i) - q) * UnitsPerDegree) \div (CosDeg(i) - CosDeg(i + 1))

\* math.atan of the quotient y / x of two fixed-point values: the angle in
\* [-TAU/4, TAU/4] whose tangent is y / x.  A zero x stands for the huge
\* finite tangent that math.tan returns next to a quarter turn.
AtanPos(y, x) ==
  \* x > 0, y >= 0; f(k) has the sign of tan(k degrees) - y / x
  LET f(k) == SinTab[k + 1] * x - SinTab[91 - k] * y
      i == Cardinality({k \in 1..89 : f(k) <= 0})
      lo == (-f(i)) \div 100
      hi == f(i + 1) \div 100
  IN  IF lo + hi <= 0 THEN i * UnitsPerDegree
      ELSE i * UnitsPerDegree + (lo * UnitsPerDegree) \div (lo + hi)

Atan(y, x) ==
  IF x = 0 THEN Sgn(y) * (TAU \div 4)
  ELSE IF (x > 0) = (y >= 0) THEN AtanPos(Abs(y), Abs(x))
  ELSE -AtanPos(Abs(y), Abs(x))

\* Python 3 round(): to the nearest integer, a tie to the even one.  The
\* argument is the fraction n / d, d > 0 and even.
PyRound(n, d) ==
  LET fl == n \div d
      r  == n % d
  IN  IF 2 * r < d THEN fl
      ELSE IF 2 * r > d THEN fl + 1
      ELSE IF fl % 2 = 0 THEN fl ELSE fl + 1

--------------------------------------------------------------------------
(* src/sunrise.py:19-22 *)

\* rad_from_deg: degrees / 360.0 * TAU = degrees * 12 / 5 in model units
rad_from_deg(degrees) == (degrees * (TAU \div 720000)) \div ((360 * DEG) \div 720000)

\* deg_from_rad: radians / TAU * 360
deg_from_rad(radians) == (radians * ((360 * DEG) \div 720000)) \div (TAU \div 720000)


--------------------------------------------------------------------------
(* Dates.  A date is the number of days since 2000-01-01, which is what    *)
(* date.toordinal() - datetime.date(2000,1,1).toordinal() yields           *)
(* (src/sunrise.py:33-35).                                                 *)

IsLeap(y) == (y % 4 = 0 /\ y % 100 # 0) \/ y % 400 = 0

DaysInYear(y) == IF IsLeap(y) THEN 366 ELSE 365

RECURSIVE YdayFrom(_, _)
YdayFrom(n, y) == IF n < DaysInYear(y) THEN n + 1 ELSE YdayFrom(n - DaysInYear(y), y + 1)

\* date.timetuple().tm_yday: the day of the year, 1..366
tm_yday(date) == YdayFrom(date, 2000)

--------------------------------------------------------------------------
(* src/sunrise.py:24-30 *)

\* w * k, with w = TAU / DAYS_PER_YEAR
YearAngle(k) == MulDiv(TAU * 4, k, DAYS_PER_YEAR_X4)

\* the intermediate c of equation_of_time, as the numerator of c over TAU/2
eot_c(date) ==
  LET d == tm_yday(date)
      a == YearAngle(d + 10)
      \* 2 * 0.0167 radians is (2 * 167 * RAD) / 10^4 units
      b == a + (((2 * 167 * RAD) \div 10^4) * Sin(YearAngle(d - 2))) \div SCALE
      obl == Cos(rad_from_deg(2344 * (DEG \div 100)))
  IN  a - Atan(Sin(b), Mul(Cos(b), obl))

\* a variant of eot_round: int(c) in place of round(c)
eot_round_trunc(n) == n \div (TAU \div 2)

\* round(c), Python 3
eot_round(n) == PyRound(n, TAU \div 2)

\* (c - round(c)) * TAU/2
equation_of_time(date) ==
  LET n == eot_c(date)
  IN  n - eot_round(n) * (TAU \div 2)

--------------------------------------------------------------------------
(* src/sunrise.py:32-51.  a_sun (line 49) is computed and never used.      *)

solar_declination(date) ==
  LET d_since_y2k == date
      m0 == rad_from_deg(3575291)
      \* rad_from_deg(0.98560028) is 23654.407 units
      m == (m0 + MulDiv(23654407, d_since_y2k, 1000)) % TAU
      c == (rad_from_deg(19148) * Sin(m)) \div SCALE
           + (rad_from_deg(200) * Sin(2 * m)) \div SCALE
           + (rad_from_deg(3) * Sin(3 * m)) \div SCALE
      v == m + c
      earth_peri == rad_from_deg(1029372)
      l == v + earth_peri
      l_sun == (l + TAU \div 2) % TAU
      s1 == Sin(l_sun)
      s2 == Mul(s1, s1)
      s3 == Mul(s2, s1)
      s5 == Mul(s3, s2)
  IN  ((rad_from_deg(228008) \div 10) * s1) \div (SCALE \div 10)
      + (rad_from_deg(5999) * s3) \div SCALE
      + (rad_from_deg(493) * s5) \div SCALE

--------------------------------------------------------------------------
(* src/sunrise.py:53-64 *)

\* math.fmod(x, 1.0) for x = n / TAU: exact, with the sign of x
Fmod1(n) == Sgn(n) * (Abs(n) % TAU)

\* Python's float x % 1 for x = n / TAU, as a numerator over TAU.  CPython
\* computes r = fmod(x, 1.0), exactly, and adds 1.0 when r < 0; that
\* addition is rounded to a double.  The doubles below 1.0 are 2^-53 apart,
\* so r + 1.0 is 1.0 itself when -2^-54 <= r < 0: the result then is 1.0,
\* outside [0, 1).  Such an r arises only from a quotient x that is itself
\* that small (a quotient of magnitude 1 or more is a double whose remainder
\* is 0 or at least 2^-52).  The model's finest negative quotient, one unit
\* below zero, stands for such an x; every other remainder is added exactly.
PyFloatMod1(n) ==
  LET r == Fmod1(n)
  IN  IF r >= 0 THEN r
      ELSE IF n >= -1 THEN TAU
      ELSE r + TAU

\* time_angle_to_hms: <<int(hours), int(minutes), seconds>>, the seconds in
\* hundredths.  math.modf splits a non-negative value into its integer part
\* and its fraction.
time_angle_to_hms(time_angle) ==
  LET day_frac  == PyFloatMod1(time_angle)
      hours     == (day_frac * 24) \div TAU
      hour_frac == (day_frac * 24) % TAU
      minutes   == (hour_frac * 60) \div TAU
      min_frac  == (hour_frac * 60) % TAU
      seconds   == (min_frac * 60) \div (TAU \div 100)
  IN  <<hours, minutes, seconds>>

\* print_hour_angle: the fields of "{0:02}:{1:02}:{2:02}", the last one
\* int(seconds)
print_hour_angle(angle) ==
  LET hms == time_angle_to_hms(angle)
  IN  <<hms[1], hms[2], hms[3] \div 100>>

--------------------------------------------------------------------------
(* src/sunrise.py:9-17: the catalog, angles in 1/DEG degree *)

limits_list ==
  << [id |-> "horizontal",   angle |-> 0,
      nameup |-> "horizontal sunrise", namedown |-> "horizontal sunset"],
     [id |-> "sunrise",      angle |-> 83 * (DEG \div 100),
      nameup |-> "sunrise", namedown |-> "sunset"],
     [id |-> "civil",        angle |-> 6 * DEG,
      nameup |-> "civil dawn", namedown |-> "civil dusk"],
     [id |-> "naval",        angle |-> 12 * DEG,
      nameup |-> "naval dawn", namedown |-> "naval dusk"],
     [id |-> "astronomical", angle |-> 18 * DEG,
      nameup |-> "astronomical dawn", namedown |-> "astronomical dusk"] >>

\* sorted(..., key=angle) is stable: an entry goes behind the entries whose
\* angle is not larger
RECURSIVE InsertByAngle(_, _)
InsertByAngle(s, e) ==
  IF s = <<>> THEN <<e>>
  ELSE IF Head(s).angle <= e.angle THEN <<Head(s)>> \o InsertByAngle(Tail(s), e)
  ELSE <<e>> \o s

RECURSIVE SortedByAngle(_)
SortedByAngle(s) ==
  IF s = <<>> THEN <<>>
  ELSE InsertByAngle(SortedByAngle(SubSeq(s, 1, Len(s) - 1)), s[Len(s)])

\* limits, the OrderedDict, as the sequence of its values
limits == SortedByAngle(limits_list)

LimitIds == {limits[i].id : i \in 1..Len(limits)}

\* limits[id]
LimitOf(id) == limits[CHOOSE i \in 1..Len(limits) : limits[i].id = id]

--------------------------------------------------------------------------
(* Bounds of the model. *)

\* the dates of a run: NumDates days, half a year apart, from 2000-06-20
NumDates == 2
\* --zone takes an integer in -MaxZone .. MaxZone
MaxZone == 1
\* -v is given at most MaxVerbose times
MaxVerbose == 2
\* time_angle_to_hms is applied to angles up to MaxEighths eighths of a turn
\* either side of zero
MaxEighths == 16

Dates == {171 + 183 * k : k \in 0..(NumDates - 1)}

\* the days of the years 2000 and 2001 and the first NumDates days of 2002
EotDates == 0..(730 + NumDates)

\* degrees, in 1/DEG degree
\* the equator; two latitudes next to the polar circle, where cos(hour) of the
\* horizon is exactly -1 on 2000-06-20 and exactly 1 on 2000-12-20; 80 N
Latitudes == {0, 6655 * (DEG \div 100), 6656 * (DEG \div 100), 80 * DEG}

\* 90 E, and the longitude at which the sun is on the horizon of the equator
\* one unit before 00:00 UTC of 2000-06-20
Longitudes == {90 * DEG, 903981}

TimeAngles ==
  {k * (TAU \div 8) + j : k \in (-MaxEighths)..MaxEighths, j \in {-10, -1, 0, 1, 10}}

--------------------------------------------------------------------------
(* State. *)

VARIABLES
  args,    \* the parsed command line (src/sunrise.py:113-126)
  times,   \* __main__'s OrderedDict: a sequence of <<timeformat, val>>
  todo,    \* the ids of the limits print_limits is still to be called on
  out,     \* standard output: the lines printed so far
  frame,   \* the locals of the latest call
  pc       \* where the program is

vars == <<args, times, todo, out, frame, pc>>

\* None is <<>>; an integer val is <<val>>
None == <<>>

Line(kind, limit, timeformat, timename, angle, text) ==
  [kind |-> kind, limit |-> limit, timeformat |-> timeformat,
   timename |-> timename, angle |-> angle, text |-> text]

NoFrame == [call |-> "none"]

--------------------------------------------------------------------------
(* src/sunrise.py:66-108 *)

\* a variant of sun_angle_of: the sign of the elevation lost
sun_angle_of_unsigned(limit) == rad_from_deg(limit.angle)

\* line 73
sun_angle_of(limit) == -rad_from_deg(limit.angle)

\* line 74; latitude and sun_decl in units, the result in 1/SCALE
cos_of_hour_of(limit, latitude, sun_decl) ==
  ((Sin(sun_angle_of(limit)) - Mul(Sin(latitude), Sin(sun_decl))) * SCALE)
     \div Mul(Cos(latitude), Cos(sun_decl))

\* a variant of outcome_of: the boundary cos(hour) = 1 taken as polar night
outcome_of_inclusive(cos_of_hour) ==
  IF cos_of_hour >= SCALE THEN "polar night"
  ELSE IF cos_of_hour < -SCALE THEN "polar day"
  ELSE "solved"

\* lines 80-85: the branch taken
outcome_of(cos_of_hour) ==
  IF cos_of_hour > SCALE THEN "polar night"
  ELSE IF cos_of_hour < -SCALE THEN "polar day"
  ELSE "solved"

\* a variant of noon_of: the longitude added, not subtracted
noon_of_east_positive(timeformat, val, longtitude, eot) ==
  LET noon_local == TAU \div 2
      noon_mean  == TAU \div 2 - eot
      noon_utc   == TAU \div 2 + longtitude - eot
  IN  CASE timeformat = "solar" -> noon_local
        [] timeformat = "mean"  -> noon_mean
        [] timeformat = "utc"   -> noon_utc
        [] timeformat = "zone"  -> noon_utc + (val[1] * TAU) \div 24

\* lines 94-103: values[0], the noon of one entry of times
noon_of(timeformat, val, longtitude, eot) ==
  LET noon_local == TAU \div 2
      noon_mean  == TAU \div 2 - eot
      noon_utc   == TAU \div 2 - longtitude - eot
  IN  CASE timeformat = "solar" -> noon_local
        [] timeformat = "mean"  -> noon_mean
        [] timeformat = "utc"   -> noon_utc
        [] timeformat = "zone"  -> noon_utc + (val[1] * TAU) \div 24

\* lines 95-103: values[1]
timename_of(timeformat) ==
  CASE timeformat = "solar" -> "solar time"
    [] timeformat = "mean"  -> "mean solar time"
    [] timeformat = "utc"   -> "UTC"
    [] timeformat = "zone"  -> "tz"

\* line 104
sunrise_of(noon, hour_angle) == noon - hour_angle

\* a variant of sunset_of: the hour angle counted from the sunrise
sunset_of_from_sunrise(noon, hour_angle) == (noon - hour_angle) + hour_angle

\* line 105
sunset_of(noon, hour_angle) == noon + hour_angle

\* a variant of time_lines: the noon printed first
time_lines_noon_first(limit, entry, longtitude, eot, hour_angle) ==
  LET timeformat == entry[1]
      noon    == noon_of(timeformat, entry[2], longtitude, eot)
      sunrise == sunrise_of(noon, hour_angle)
      sunset  == sunset_of(noon, hour_angle)
      name    == timename_of(timeformat)
  IN  << Line("noon", limit.id, timeformat, name, noon, print_hour_angle(noon)),
         Line("rise", limit.id, timeformat, name, sunrise, print_hour_angle(sunrise)),
         Line("set", limit.id, timeformat, name, sunset, print_hour_angle(sunset)) >>

\* lines 93-108: the three lines of one entry of times
time_lines(limit, entry, longtitude, eot, hour_angle) ==
  LET timeformat == entry[1]
      noon    == noon_of(timeformat, entry[2], longtitude, eot)
      sunrise == sunrise_of(noon, hour_angle)
      sunset  == sunset_of(noon, hour_angle)
      name    == timename_of(timeformat)
  IN  << Line("rise", limit.id, timeformat, name, sunrise, print_hour_angle(sunrise)),
         Line("noon", limit.id, timeformat, name, noon, print_hour_angle(noon)),
         Line("set", limit.id, timeformat, name, sunset, print_hour_angle(sunset)) >>

RECURSIVE loop_lines(_, _, _, _, _)
loop_lines(limit, t, longtitude, eot, hour_angle) ==
  IF t = <<>> THEN <<>>
  ELSE time_lines(limit, Head(t), longtitude, eot, hour_angle)
         \o loop_lines(limit, Tail(t), longtitude, eot, hour_angle)

\* a variant of effective_times: UTC added whenever it was not asked for
effective_times_always_utc(t) ==
  IF \E i \in 1..Len(t) : t[i][1] = "utc" THEN t ELSE t \o << <<"utc", None>> >>

\* lines 67-68
effective_times(t) == IF t = <<>> THEN << <<"utc", None>> >> ELSE t

\* print_limits: the locals it ends with and the lines it prints.  Line 79,
\* a bare `print`, prints nothing in Python 3.
print_limits(date, limit, latitude, longtitude, times0, verbose) ==
  LET t           == effective_times(times0)
      sun_decl    == solar_declination(date)
      cos_of_hour == cos_of_hour_of(limit, latitude, sun_decl)
      outcome     == outcome_of(cos_of_hour)
      eot         == equation_of_time(date)
      hour_angle  == Acos(cos_of_hour)
      head == << Line("header", limit.id, "", "", 0, <<>>) >>
              \o (IF verbose > 0
                    THEN << Line("decl", limit.id, "", "", sun_decl,
                                 <<deg_from_rad(sun_decl)>>) >>
                    ELSE <<>>)
              \o (IF verbose > 1
                    THEN << Line("cos", limit.id, "", "", cos_of_hour, <<>>) >> ELSE <<>>)
              \o (IF verbose > 0
                    THEN << Line("eot", limit.id, "", "", -eot, print_hour_angle(-eot)) >>
                    ELSE <<>>)
  IN  IF outcome = "solved"
        THEN [frame |-> [call |-> "print_limits", limit |-> limit.id, times |-> t,
                         latitude |-> latitude, longtitude |-> longtitude,
                         sun_decl |-> sun_decl, cos_of_hour |-> cos_of_hour,
                         outcome |-> outcome, eot |-> <<eot>>,
                         hour_angle |-> <<hour_angle>>],
              lines |-> head \o loop_lines(limit, t, longtitude, eot, hour_angle)]
        ELSE [frame |-> [call |-> "print_limits", limit |-> limit.id, times |-> t,
                         latitude |-> latitude, longtitude |-> longtitude,
                         sun_decl |-> sun_decl, cos_of_hour |-> cos_of_hour,
                         outcome |-> outcome, eot |-> <<>>, hour_angle |-> <<>>],
              lines |-> head \o << Line(outcome, limit.id, "", "", 0, <<>>) >>]

--------------------------------------------------------------------------
(* src/sunrise.py:110-156 *)

\* lines 128-136
build_times(a) ==
  (IF a.solar THEN << <<"solar", None>> >> ELSE <<>>)
    \o (IF a.mean THEN << <<"mean", None>> >> ELSE <<>>)
    \o (IF a.utc THEN << <<"utc", None>> >> ELSE <<>>)
    \o (IF a.zone # None THEN << <<"zone", a.zone>> >> ELSE <<>>)

Init ==
  /\ args \in [date : Dates, solar : BOOLEAN, mean : BOOLEAN, utc : BOOLEAN,
               zone : {None} \cup {<<h>> : h \in (-MaxZone)..MaxZone},
               limits : LimitIds \cup {"all"},
               latitude : Latitudes, longtitude : Longitudes,
               verbose : 0..MaxVerbose]
  /\ times = <<>>
  /\ todo = <<>>
  /\ out = <<>>
  /\ frame = NoFrame
  /\ pc = "main"

\* lines 126-136 and the choice of lines 151-156
Main ==
  /\ pc = "main"
  /\ times' = build_times(args)
  /\ todo' = IF args.limits = "all"
               THEN [i \in 1..Len(limits) |-> limits[i].id]
               ELSE <<args.limits>>
  /\ pc' = "call"
  /\ UNCHANGED <<args, out, frame>>

\* one call of print_limits, line 153 (followed by print(), line 154) or
\* line 156
CallPrintLimits ==
  /\ pc = "call"
  /\ todo # <<>>
  /\ LET r == print_limits(args.date, LimitOf(Head(todo)),
                           rad_from_deg(args.latitude), rad_from_deg(args.longtitude),
                           times, args.verbose)
     IN  /\ frame' = r.frame
         /\ out' = out \o r.lines
                     \o (IF args.limits = "all"
                           THEN << Line("blank", Head(todo), "", "", 0, <<>>) >>
                           ELSE <<>>)
  /\ todo' = Tail(todo)
  /\ pc' = IF Tail(todo) = <<>> THEN "exit" ELSE "call"
  /\ UNCHANGED <<args, times>>

Next == Main \/ CallPrintLimits

Spec == Init /\ [][Next]_vars

--------------------------------------------------------------------------
(* The pure functions, applied to inputs of their own. *)

InitHms ==
  /\ args \in [time_angle : TimeAngles]
  /\ times = <<>>
  /\ todo = <<>>
  /\ out = <<>>
  /\ frame = NoFrame
  /\ pc = "print_hour_angle"

\* print_hour_angle(angle), which calls time_angle_to_hms(angle)
CallPrintHourAngle ==
  /\ pc = "print_hour_angle"
  /\ frame' = [call |-> "print_hour_angle", angle |-> args.time_angle,
               hms |-> time_angle_to_hms(args.time_angle)]
  /\ out' = out \o << Line("time", "", "", "", args.time_angle,
                           print_hour_angle(args.time_angle)) >>
  /\ pc' = "exit"
  /\ UNCHANGED <<args, times, todo>>

NextHms == CallPrintHourAngle

SpecHms == InitHms /\ [][NextHms]_vars

InitEot ==
  /\ args \in [date : EotDates]
  /\ times = <<>>
  /\ todo = <<>>
  /\ out = <<>>
  /\ frame = NoFrame
  /\ pc = "equation_of_time"

\* equation_of_time(date)
CallEquationOfTime ==
  /\ pc = "equation_of_time"
  /\ frame' = [call |-> "equation_of_time", date |-> args.date,
               c |-> eot_c(args.date), ret |-> equation_of_time(args.date)]
  /\ pc' = "exit"
  /\ UNCHANGED <<args, times, todo, out>>

NextEot == CallEquationOfTime

SpecEot == InitEot /\ [][NextEot]_vars

--------------------------------------------------------------------------
(* What the properties read off the state. *)

Called == frame.call = "print_limits"

Solved == Called /\ frame.outcome = "solved"

Polar == Called /\ frame.outcome \in {"polar night", "polar day"}

\* the lines the latest call of print_limits printed
CallLines == SelectSeq(out, LAMBDA l : l.limit = frame.limit)

IsVerdict(l) == l.kind \in {"polar night", "polar day"}

IsTime(l) == l.kind \in {"rise", "noon", "set"}

Verdicts == SelectSeq(CallLines, IsVerdict)

TimeLines == SelectSeq(CallLines, IsTime)

\* the bases of the latest call, in the order they were reported in
ReportedBases ==
  LET noons == SelectSeq(CallLines, LAMBDA l : l.kind = "noon")
  IN  [i \in 1..Len(noons) |-> noons[i].timeformat]

\* the bases asked for on the command line, in the order solar, mean, utc, zone
RequestedBases ==
  SelectSeq(<<"solar", "mean", "utc", "zone">>,
            LAMBDA f : \/ f = "solar" /\ args.solar
                       \/ f = "mean" /\ args.mean
                       \/ f = "utc" /\ args.utc
                       \/ f = "zone" /\ args.zone # None)

\* the same, as entries of times
RequestedBases_times ==
  [i \in 1..Len(RequestedBases) |->
     <<RequestedBases[i], IF RequestedBases[i] = "zone" THEN args.zone ELSE None>>]

\* a displayed HH:MM:SS, in seconds
Secs(text) == text[1] * 3600 + text[2] * 60 + text[3]

KindIndex(kind) == CASE kind = "rise" -> 1 [] kind = "noon" -> 2 [] kind = "set" -> 3

\* floor(x / TAU): the day a time-angle falls in
DayOf(x) == x \div TAU

--------------------------------------------------------------------------
(* C1: the hour-angle step of print_limits has exactly one of three        *)
(* outcomes, decided by cos(hour): polar night if and only if it is above  *)
(* 1, polar day if and only if it is below -1, and otherwise, both         *)
(* boundary values included, the hour angle acos(cos(hour)), which lies    *)
(* in [0, pi].  The verdict printed is the one of the outcome.             *)
C1_HourAngleOutcome ==
  Called =>
    LET q == frame.cos_of_hour
    IN  /\ frame.outcome \in {"polar night", "polar day", "solved"}
        /\ (frame.outcome = "polar night") <=> (q > SCALE)
        /\ (frame.outcome = "polar day") <=> (q < -SCALE)
        /\ (q >= -SCALE /\ q <= SCALE) =>
             /\ frame.outcome = "solved"
             /\ frame.hour_angle = <<Acos(q)>>
             /\ frame.hour_angle[1] >= 0
             /\ frame.hour_angle[1] <= TAU \div 2
        /\ \A i \in 1..Len(Verdicts) : Verdicts[i].kind = frame.outcome
        /\ (frame.outcome = "solved") <=> (frame.hour_angle # <<>>)

\* C1, reached: cos(hour) is exactly 1 and the hour angle is solved, as 0
C1_Witness ==
  /\ Solved
  /\ frame.cos_of_hour = SCALE
  /\ frame.hour_angle = <<0>>

--------------------------------------------------------------------------
(* C2: in a run of print_limits, a polar outcome reports exactly one       *)
(* verdict and no rise, noon or set time for any basis; a solved outcome   *)
(* reports no verdict and, for each basis of the run in turn, exactly the  *)
(* three instants rise, noon, set, in that order.                          *)
C2_VerdictOrTriples ==
  Called =>
    LET t == frame.times
        T == TimeLines
    IN  IF frame.outcome = "solved"
          THEN /\ Verdicts = <<>>
               /\ Len(T) = 3 * Len(t)
               /\ \A i \in 1..Len(t) :
                    /\ T[3 * i - 2].kind = "rise"
                    /\ T[3 * i - 1].kind = "noon"
                    /\ T[3 * i].kind = "set"
                    /\ \A k \in 0..2 : T[3 * i - k].timeformat = t[i][1]
          ELSE /\ Len(Verdicts) = 1
               /\ Verdicts[1].kind = frame.outcome
               /\ T = <<>>

\* C2, reached: a polar outcome although all four bases were asked for
C2_Witness ==
  /\ Polar
  /\ Len(frame.times) = 4
  /\ Len(Verdicts) = 1

--------------------------------------------------------------------------
(* C3: the noon print_limits uses is pi for the solar basis, pi - eot for  *)
(* the mean basis, pi - longitude - eot for UTC, and                       *)
(* (pi - longitude - eot) + h * (2 pi / 24) for the zone basis of offset h *)
C3_ReferenceNoon ==
  Solved =>
    LET eot == equation_of_time(args.date)
        lon == rad_from_deg(args.longtitude)
        pi  == TAU \div 2
    IN  \A i \in 1..Len(TimeLines) :
          LET l == TimeLines[i]
          IN  l.kind = "noon" =>
                /\ l.timeformat = "solar" => l.angle = pi
                /\ l.timeformat = "mean" => l.angle = pi - eot
                /\ l.timeformat = "utc" => l.angle = pi - lon - eot
                /\ l.timeformat = "zone" =>
                     l.angle = (pi - lon - eot) + args.zone[1] * (TAU \div 24)

\* C3, reached: all four bases reported, away from Greenwich, with an offset that is not 0
C3_Witness ==
  /\ Solved
  /\ ReportedBases = <<"solar", "mean", "utc", "zone">>
  /\ args.zone # <<0>>
  /\ args.longtitude # 0
  /\ equation_of_time(args.date) # 0

--------------------------------------------------------------------------
(* C4: for every basis and every solved hour angle, rise and set are       *)
(* symmetric about the noon of the basis:                                  *)
(* noon - rise = set - noon = hour angle.                                  *)
C4_Symmetry ==
  Solved =>
    /\ Len(TimeLines) = 3 * Len(frame.times)
    /\ \A i \in 1..Len(frame.times) :
         LET rise == TimeLines[3 * i - 2].angle
             noon == TimeLines[3 * i - 1].angle
             set  == TimeLines[3 * i].angle
         IN  /\ noon - rise = frame.hour_angle[1]
             /\ set - noon = frame.hour_angle[1]

\* C4, reached: four bases and an hour angle that is not 0
C4_Witness ==
  /\ Solved
  /\ Len(frame.times) = 4
  /\ frame.hour_angle[1] > 0
  /\ Len(TimeLines) = 12

--------------------------------------------------------------------------
(* C5: time_angle_to_hms is total and wraps modulo one day: for any        *)
(* time-angle, negative ones and ones of a turn or more included, hours    *)
(* is in [0,23], minutes in [0,59], seconds in [0,60); angles a whole      *)
(* number of turns apart give the same triple; exactly one turn gives      *)
(* 00:00:00.                                                               *)
C5_HmsTotalAndPeriodic ==
  frame.call = "print_hour_angle" =>
    /\ frame.hms[1] \in 0..23
    /\ frame.hms[2] \in 0..59
    /\ frame.hms[3] >= 0 /\ frame.hms[3] < 60 * 100
    /\ time_angle_to_hms(frame.angle + TAU) = frame.hms
    /\ time_angle_to_hms(frame.angle - TAU) = frame.hms
    /\ frame.angle = TAU => frame.hms = <<0, 0, 0>>

--------------------------------------------------------------------------
(* C6: the display truncates and never rounds: the HH:MM:SS shown for an   *)
(* angle satisfies HH*3600 + MM*60 + SS = floor(86400 * ((angle / 2 pi)    *)
(* mod 1)), hours taken first, then minutes, then seconds; 23:59:59.9 is   *)
(* shown as 23:59:59; a seconds field of 60 or an hours field of 24 is     *)
(* never shown.                                                            *)
C6_TruncatedDisplay ==
  frame.call = "print_hour_angle" =>
    LET text == out[Len(out)].text
        frac == frame.angle % TAU
    IN  /\ Secs(text) = frac \div (TAU \div 86400)
        /\ text[1] = (frac * 24) \div TAU
        /\ text[2] = (((frac * 24) % TAU) * 60) \div TAU
        /\ text[3] # 60
        /\ text[1] # 24
        /\ frac = TAU - 10 => text = <<23, 59, 59>>

--------------------------------------------------------------------------
(* C7: for the same date, place and non-polar threshold, the rise, noon    *)
(* and set shown under the offset h + 1 are each exactly one hour later,   *)
(* modulo 24 hours, than those shown under the offset h; and those shown   *)
(* under the offset 0 are those shown under UTC.                           *)
C7_ZoneShift ==
  Solved =>
    \A i \in 1..Len(TimeLines) :
      LET l == TimeLines[i]
          shown(entry) ==
            time_lines(LimitOf(frame.limit), entry, frame.longtitude,
                       frame.eot[1], frame.hour_angle[1])[KindIndex(l.kind)].text
      IN  l.timeformat = "zone" =>
            /\ Secs(shown(<<"zone", <<args.zone[1] + 1>> >>))
                 = (Secs(l.text) + 3600) % 86400
            /\ args.zone = <<0>> => shown(<<"utc", None>>) = l.text

--------------------------------------------------------------------------
(* C8: on one date, at one place and in one basis, of two non-polar        *)
(* thresholds the deeper one B never has the later rise or the earlier     *)
(* set than the shallower one A: hourAngle(B) >= hourAngle(A),             *)
(* rise(B) <= rise(A), set(B) >= set(A).                                   *)

\* the hour angle of each limit at the place and date of the run; -1 when
\* the outcome is polar
HourAngles ==
  LET decl == solar_declination(args.date)
      lat  == rad_from_deg(args.latitude)
  IN  [id \in LimitIds |->
         LET q == cos_of_hour_of(LimitOf(id), lat, decl)
         IN  IF outcome_of(q) = "solved" THEN Acos(q) ELSE -1]

\* the lines of out that report a rise or a set
RiseSetLines == SelectSeq(out, LAMBDA l : l.kind \in {"rise", "set"})

\* b reports, in the basis of a, the same instant for a deeper threshold
Deeper(a, b) ==
  /\ a.kind = b.kind
  /\ a.timeformat = b.timeformat
  /\ LimitOf(a.limit).angle < LimitOf(b.limit).angle

\* C8 as made: the ordering holds of the time-angles and of the clock times
\* shown
C8_OrderedAlsoAsShown ==
  LET ha == HourAngles
      L  == RiseSetLines
  IN  \A i \in 1..Len(L), j \in 1..Len(L) :
        Deeper(L[i], L[j]) =>
          /\ ha[L[j].limit] >= ha[L[i].limit]
          /\ IF L[i].kind = "rise"
               THEN L[j].angle <= L[i].angle /\ Secs(L[j].text) <= Secs(L[i].text)
               ELSE L[j].angle >= L[i].angle /\ Secs(L[j].text) >= Secs(L[i].text)

\* C8, amended: the ordering holds of the hour angles and of the time-angles;
\* it holds of the clock times shown when the two time-angles fall in the
\* same day, that is in the same interval [k * 2 pi, (k + 1) * 2 pi)
C8_OrderedWithinADay ==
  LET ha == HourAngles
      L  == RiseSetLines
  IN  \A i \in 1..Len(L), j \in 1..Len(L) :
        Deeper(L[i], L[j]) =>
          /\ ha[L[j].limit] >= ha[L[i].limit]
          /\ IF L[i].kind = "rise"
               THEN /\ L[j].angle <= L[i].angle
                    /\ DayOf(L[j].angle) = DayOf(L[i].angle)
                         => Secs(L[j].text) <= Secs(L[i].text)
               ELSE /\ L[j].angle >= L[i].angle
                    /\ DayOf(L[j].angle) = DayOf(L[i].angle)
                         => Secs(L[j].text) >= Secs(L[i].text)

\* C8, reached: the horizon and the astronomical limit both reported in one run, the
\* astronomical dawn strictly the earlier, on the same day
C8_Witness ==
  /\ pc = "exit"
  /\ \E i \in 1..Len(out), j \in 1..Len(out) :
       /\ out[i].kind = "rise" /\ out[i].limit = "horizontal"
       /\ out[j].kind = "rise" /\ out[j].limit = "astronomical"
       /\ out[i].timeformat = out[j].timeformat
       /\ out[j].angle < out[i].angle
       /\ DayOf(out[j].angle) = DayOf(out[i].angle)
       /\ Secs(out[j].text) < Secs(out[i].text)

--------------------------------------------------------------------------
--------------------------------------------------------------------------
(* C10: called with no basis asked for, print_limits reports times in      *)
(* exactly one basis, UTC; with at least one asked for (a zone of offset   *)
(* 0 included) it reports exactly the bases asked for, each once, in the   *)
(* order solar, mean, utc, zone, and adds no UTC.                          *)

\* C10 as made: of every call
C10_BasesReported ==
  Called =>
    /\ times = RequestedBases_times
    /\ IF RequestedBases = <<>>
         THEN ReportedBases = <<"utc">>
         ELSE ReportedBases = RequestedBases

\* C10, amended: of every call whose outcome is a solved hour angle; a call
\* whose outcome is polar reports times in no basis
C10_BasesReportedWhenSolved ==
  Called =>
    /\ times = RequestedBases_times
    /\ IF frame.outcome = "solved"
         THEN IF RequestedBases = <<>>
                THEN ReportedBases = <<"utc">>
                ELSE ReportedBases = RequestedBases
         ELSE ReportedBases = <<>>

\* C10, reached: only a zone was asked for, of offset 0, and only the zone is reported
C10_Witness ==
  /\ Solved
  /\ args.zone = <<0>>
  /\ ~args.solar /\ ~args.mean /\ ~args.utc
  /\ ReportedBases = <<"zone">>

==========================================================================
